---- MODULE Spec2Model ----
(***************************************************************************)
(* Model of sesame/huric_to_conll.py: the HuRIC XML to CoNLL 2009          *)
(* converter.  Strings are TLA+ strings (built with \o as the code builds  *)
(* them with format), XML element lists are sequences of records of their  *)
(* attributes, Python dicts are functions, and a raised exception is the   *)
(* tuple of its type name and arguments.                                   *)
(***************************************************************************)
EXTENDS Integers, Sequences, FiniteSets, TLC

VARIABLES fs, pc, ds, files_list, fidx, command_id, tokens, deps_by_t_id,
          frames, fi, results, samples, out, exc, calls

vars == <<fs, pc, ds, files_list, fidx, command_id, tokens, deps_by_t_id,
          frames, fi, results, samples, out, exc, calls>>

(***************************************************************************)
(* Bounds of the explored inputs.                                          *)
(***************************************************************************)
MaxSpans == 2
MaxSpanLen == 2
MaxFrames == 2
MaxFiles == 2
MaxCalls == 2

(***************************************************************************)
(* Generic helpers.                                                        *)
(***************************************************************************)
Range(s) == {s[i] : i \in DOMAIN s}

SeqsUpTo(S, n) == UNION {[1..k -> S] : k \in 0..n}

NonEmptySeqsUpTo(S, n) == UNION {[1..k -> S] : k \in 1..n}

Put(f, k, v) == [x \in DOMAIN f \cup {k} |-> IF x = k THEN v ELSE f[x]]

(***************************************************************************)
(* Module constants.                                                       *)
(***************************************************************************)
PATH_DATASETS == "data"
PATH_CONLL == "data/neural"

(***************************************************************************)
(* The three name remappings and the part-of-speech rule.                  *)
(***************************************************************************)
FrameMapping ==
    ("Entering" :> "Arriving") @@ ("Following" :> "Cotheme") @@
    ("Searching" :> "Scrutiny")

LemmaMapping ==
    ("halfcarri" :> "carry") @@ ("positioning" :> "position") @@
    ("reconnoiter" :> "reconnoitre") @@ ("half-l" :> "lead") @@
    ("be" :> "constitute") @@ ("there" :> "constitute") @@
    ("along" :> "go") @@ ("let" :> "go") @@ ("up" :> "pick")

FeMapping ==
    ("Desired_state" :> "Desired_state_of_affairs") @@
    ("Reencoding" :> "Re-encoding")

\* variant: mapping.get(name) with no default
get_fn_frame_name_NoDefault(huric_name) ==
    IF huric_name \in DOMAIN FrameMapping THEN FrameMapping[huric_name]
    ELSE "None"

get_fn_frame_name(huric_name) ==
    IF huric_name \in DOMAIN FrameMapping THEN FrameMapping[huric_name]
    ELSE huric_name

get_lu_lemma(lemma) ==
    IF lemma \in DOMAIN LemmaMapping THEN LemmaMapping[lemma] ELSE lemma

get_fe_framenet(fe) ==
    IF fe \in DOMAIN FeMapping THEN FeMapping[fe] ELSE fe

Returned(v) == [ok |-> TRUE, val |-> v, exc |-> <<>>]

Raised(e) == [ok |-> FALSE, val |-> "", exc |-> e]

RuleException(pos) ==
    <<"Exception", "Rule not defined for part-of-speech word", pos>>

KeyError(key) == <<"KeyError", key>>

\* variant: the particle and existential-there tags left out of the rule
get_fn_pos_by_rules_SixVerbs(pos) ==
    IF pos = "JJ" THEN Returned("a")
    ELSE IF pos \in {"NN", "NNP", "NNS"} THEN Returned("n")
    ELSE IF pos \in {"VB", "VBD", "VBG", "VBN", "VBP", "VBZ"}
         THEN Returned("v")
    ELSE Raised(RuleException(pos))

get_fn_pos_by_rules(pos) ==
    IF pos = "JJ" THEN Returned("a")
    ELSE IF pos \in {"NN", "NNP", "NNS"} THEN Returned("n")
    ELSE IF pos \in {"VB", "VBD", "VBG", "VBN", "VBP", "VBZ", "RP", "EX"}
         THEN Returned("v")
    ELSE Raised(RuleException(pos))

(***************************************************************************)
(* huric_xml_to_conll: the per-file lookup structures.                     *)
(***************************************************************************)
\* {d.attrib['to']: d.attrib for d in deps}: a later edge replaces an earlier
deps_dict(deps) ==
    [id \in {deps[i].to : i \in DOMAIN deps} |->
        LET last == CHOOSE i \in DOMAIN deps :
                        /\ deps[i].to = id
                        /\ \A j \in DOMAIN deps : deps[j].to = id => j <= i
        IN deps[last]]

lus_of(frame) == frame.lus

\* variant: the single-token case left out
Prefix_NoSingle(count, n) == IF count = 0 THEN "B" ELSE "I"

Prefix(count, n) ==
    IF n = 1 THEN "S" ELSE IF count = 0 THEN "B" ELSE "I"

iob_label(prefix, fe_name) == prefix \o "-" \o fe_name

\* the inner loop over enumerate(element_tokens), from position count on
RECURSIVE label_tokens(_, _, _, _)
label_tokens(fe_by_t_id, fe_name, element_tokens, count) ==
    IF count >= Len(element_tokens) THEN fe_by_t_id
    ELSE label_tokens(
            Put(fe_by_t_id, element_tokens[count + 1],
                iob_label(Prefix(count, Len(element_tokens)), fe_name)),
            fe_name, element_tokens, count + 1)

\* the loop over frame.findall('frameElement'), from element k on
RECURSIVE label_elements(_, _, _)
label_elements(fe_by_t_id, fes, k) ==
    IF k > Len(fes) THEN fe_by_t_id
    ELSE label_elements(
            label_tokens(fe_by_t_id, get_fe_framenet(fes[k].type),
                         fes[k].tokens, 0),
            fes, k + 1)

fe_dict(frame) == label_elements(<<>>, frame.fes, 1)

\* variant: the placeholder _ as the default label
fe_lookup_Placeholder(fe_by_t_id, id) ==
    IF id \in DOMAIN fe_by_t_id THEN fe_by_t_id[id] ELSE "_"

\* fe_by_t_id[id] of the defaultdict(lambda: 'O')
fe_lookup(fe_by_t_id, id) ==
    IF id \in DOMAIN fe_by_t_id THEN fe_by_t_id[id] ELSE "O"

(***************************************************************************)
(* huric_xml_to_conll: one row, its fields evaluated left to right.        *)
(***************************************************************************)
\* variant: the lemma of the lexical unit left unmapped
conll_row_RawLemma(t, cid, deps, lus, frame_name, fe_by_t_id) ==
    IF t.id \notin DOMAIN deps THEN Raised(KeyError(t.id))
    ELSE IF t.id \in Range(lus) /\ ~get_fn_pos_by_rules(t.pos).ok
         THEN Raised(get_fn_pos_by_rules(t.pos).exc)
    ELSE Returned(<<
            t.id, t.surface, t.lemma, t.lemma, t.pos, t.pos, cid, "_",
            deps[t.id].from, deps[t.id].from,
            deps[t.id].type, deps[t.id].type,
            IF t.id \in Range(lus)
                THEN t.lemma \o "." \o get_fn_pos_by_rules(t.pos).val
                ELSE "_",
            IF t.id \in Range(lus) THEN get_fn_frame_name(frame_name)
                ELSE "_",
            fe_lookup(fe_by_t_id, t.id) >>)

\* variant: a token without an incoming edge is given the root's head 0
conll_row_RootDefault(t, cid, deps, lus, frame_name, fe_by_t_id) ==
    LET dep == IF t.id \in DOMAIN deps THEN deps[t.id]
               ELSE [to |-> t.id, from |-> "0", type |-> "root"]
    IN IF t.id \in Range(lus) /\ ~get_fn_pos_by_rules(t.pos).ok
       THEN Raised(get_fn_pos_by_rules(t.pos).exc)
       ELSE Returned(<<
            t.id, t.surface, t.lemma, t.lemma, t.pos, t.pos, cid, "_",
            dep.from, dep.from, dep.type, dep.type,
            IF t.id \in Range(lus)
                THEN get_lu_lemma(t.lemma) \o "." \o
                     get_fn_pos_by_rules(t.pos).val
                ELSE "_",
            IF t.id \in Range(lus) THEN get_fn_frame_name(frame_name)
                ELSE "_",
            fe_lookup(fe_by_t_id, t.id) >>)

\* variant: the part-of-speech rule applied to every token
conll_row_EagerPos(t, cid, deps, lus, frame_name, fe_by_t_id) ==
    IF t.id \notin DOMAIN deps THEN Raised(KeyError(t.id))
    ELSE IF ~get_fn_pos_by_rules(t.pos).ok
         THEN Raised(get_fn_pos_by_rules(t.pos).exc)
    ELSE Returned(<<
            t.id, t.surface, t.lemma, t.lemma, t.pos, t.pos, cid, "_",
            deps[t.id].from, deps[t.id].from,
            deps[t.id].type, deps[t.id].type,
            IF t.id \in Range(lus)
                THEN get_lu_lemma(t.lemma) \o "." \o
                     get_fn_pos_by_rules(t.pos).val
                ELSE "_",
            IF t.id \in Range(lus) THEN get_fn_frame_name(frame_name)
                ELSE "_",
            fe_lookup(fe_by_t_id, t.id) >>)

conll_row(t, cid, deps, lus, frame_name, fe_by_t_id) ==
    IF t.id \notin DOMAIN deps THEN Raised(KeyError(t.id))
    ELSE IF t.id \in Range(lus) /\ ~get_fn_pos_by_rules(t.pos).ok
         THEN Raised(get_fn_pos_by_rules(t.pos).exc)
    ELSE Returned(<<
            t.id, t.surface, t.lemma, t.lemma, t.pos, t.pos, cid, "_",
            deps[t.id].from, deps[t.id].from,
            deps[t.id].type, deps[t.id].type,
            IF t.id \in Range(lus)
                THEN get_lu_lemma(t.lemma) \o "." \o
                     get_fn_pos_by_rules(t.pos).val
                ELSE "_",
            IF t.id \in Range(lus) THEN get_fn_frame_name(frame_name)
                ELSE "_",
            fe_lookup(fe_by_t_id, t.id) >>)

\* variant: a token whose row raises is left out of the row-set
RECURSIVE build_rows_Skip(_, _, _, _, _, _, _)
build_rows_Skip(toks, i, acc, cid, deps, frame, fe_by_t_id) ==
    IF i > Len(toks) THEN [ok |-> TRUE, val |-> acc, exc |-> <<>>]
    ELSE LET r == conll_row(toks[i], cid, deps, lus_of(frame), frame.name,
                            fe_by_t_id)
         IN IF r.ok
            THEN build_rows_Skip(toks, i + 1, Append(acc, r.val), cid, deps,
                                 frame, fe_by_t_id)
            ELSE build_rows_Skip(toks, i + 1, acc, cid, deps, frame,
                                 fe_by_t_id)

\* the list comprehension over tokens: the first raise ends it
RECURSIVE build_rows(_, _, _, _, _, _, _)
build_rows(toks, i, acc, cid, deps, frame, fe_by_t_id) ==
    IF i > Len(toks) THEN [ok |-> TRUE, val |-> acc, exc |-> <<>>]
    ELSE LET r == conll_row(toks[i], cid, deps, lus_of(frame), frame.name,
                            fe_by_t_id)
         IN IF r.ok
            THEN build_rows(toks, i + 1, Append(acc, r.val), cid, deps,
                            frame, fe_by_t_id)
            ELSE [ok |-> FALSE, val |-> <<>>, exc |-> r.exc]

conll_annotation(toks, cid, deps, frame) ==
    build_rows(toks, 1, <<>>, cid, deps, frame, fe_dict(frame))

(***************************************************************************)
(* write_conll_samples.  A file's text is the sequence of the pieces       *)
(* written to it: field strings and the separator characters.              *)
(***************************************************************************)
RECURSIVE join(_, _)
join(sep, s) ==
    IF s = <<>> THEN <<>>
    ELSE IF Len(s) = 1 THEN <<s[1]>>
    ELSE <<s[1], sep>> \o join(sep, Tail(s))

\* for s in seq: f.write('\t'.join(s) + '\n')
RECURSIVE write_rows(_, _)
write_rows(seq, i) ==
    IF i > Len(seq) THEN <<>>
    ELSE join("\t", seq[i]) \o <<"\n">> \o write_rows(seq, i + 1)

\* variant: no blank line after a row-set
RECURSIVE write_conll_NoBlank(_, _)
write_conll_NoBlank(smp, k) ==
    IF k > Len(smp) THEN <<>>
    ELSE write_rows(smp[k], 1) \o write_conll_NoBlank(smp, k + 1)

\* for seq in samples: <rows>; f.write('\n')
RECURSIVE write_conll(_, _)
write_conll(smp, k) ==
    IF k > Len(smp) THEN <<>>
    ELSE write_rows(smp[k], 1) \o <<"\n">> \o write_conll(smp, k + 1)

\* for seq in samples: f.write(' '.join([w[1] for w in seq]) + '\n')
RECURSIVE write_sents(_, _)
write_sents(smp, k) ==
    IF k > Len(smp) THEN <<>>
    ELSE join(" ", [i \in 1..Len(smp[k]) |-> smp[k][i][2]]) \o <<"\n">>
         \o write_sents(smp, k + 1)

out_path(dataset_name) == PATH_CONLL \o "/" \o dataset_name

mode_file(dataset_name, mode) ==
    out_path(dataset_name) \o "/" \o dataset_name \o "." \o mode
        \o ".syntaxnet.conll"

train_file(dataset_name) ==
    out_path(dataset_name) \o "/" \o dataset_name
        \o ".fulltext.train.syntaxnet.conll"

sents_file(dataset_name) ==
    out_path(dataset_name) \o "/" \o dataset_name
        \o ".fulltext.train.syntaxnet.conll.sents"

write_conll_samples(files, smp, dataset_name, mode) ==
    Put(Put(Put(files, mode_file(dataset_name, mode), write_conll(smp, 1)),
            train_file(dataset_name), write_conll(smp, 1)),
        sents_file(dataset_name), write_sents(smp, 1))

\* main: the two conversions, in order
MainCalls ==
    << [dataset |-> "framenet_subset", mode |-> "dev"],
       [dataset |-> "huric_modern", mode |-> "test"] >>

(***************************************************************************)
(* os.listdir and sorted.  File names are drawn from FileNames, listed in  *)
(* lexicographic order, so a name's rank is its position there.            *)
(***************************************************************************)
FileNames == <<"a.xml", "b.xml", "c.xml", "d.xml">>

Rank(name) == CHOOSE i \in DOMAIN FileNames : FileNames[i] = name

\* every order os.listdir may return the names of a directory in
listdir(dir) ==
    {s \in [1..Cardinality(DOMAIN dir) -> DOMAIN dir] :
        \A i, j \in DOMAIN s : i # j => s[i] # s[j]}

RECURSIVE insert_sorted(_, _)
insert_sorted(name, s) ==
    IF s = <<>> THEN <<name>>
    ELSE IF Rank(name) <= Rank(Head(s)) THEN <<name>> \o s
    ELSE <<Head(s)>> \o insert_sorted(name, Tail(s))

RECURSIVE sorted(_)
sorted(s) ==
    IF s = <<>> THEN <<>> ELSE insert_sorted(Head(s), sorted(Tail(s)))

(***************************************************************************)
(* The explored inputs: parsed annotation documents.  A document is the    *)
(* record of what the code reads of it: the root's id, tokens/token,       *)
(* dependencies/dep and semantics/frameSemantics/frame, in document order. *)
(***************************************************************************)
Token(id, surface, lemma, pos) ==
    [id |-> id, surface |-> surface, lemma |-> lemma, pos |-> pos]

Dep(to, from, type) == [to |-> to, from |-> from, type |-> type]

Frame(name, lus, fes) == [name |-> name, lus |-> lus, fes |-> fes]

FrameElement(type, toks) == [type |-> type, tokens |-> toks]

Document(id, toks, deps, frms) ==
    [id |-> id, tokens |-> toks, deps |-> deps, frames |-> frms]

\* Documents that vary the frame-element spans of one frame over a fixed,
\* fully parsed three-token sentence.
LabelTokens ==
    << Token("1", "take", "take", "VB"), Token("2", "the", "the", "DT"),
       Token("3", "book", "book", "NN") >>

LabelDeps ==
    << Dep("1", "0", "root"), Dep("2", "3", "det"), Dep("3", "1", "dobj") >>

FeTypes == {"Theme", "Reencoding"}

\* the spans of up to n token ids: every one-token span, and the longer
\* spans over the tokens of the noun phrase
FeSpans(n) ==
    {FrameElement(r, <<id>>) : r \in FeTypes, id \in {"1", "2", "3"}} \cup
    {FrameElement(r, t) :
        r \in FeTypes, t \in NonEmptySeqsUpTo({"2", "3"}, n)}

\* one frame with up to k spans of up to n token ids
LabelDocs(k, n) ==
    {Document("2307", LabelTokens, LabelDeps,
              <<Frame("Taking", <<"1">>, fes)>>) :
        fes \in SeqsUpTo(FeSpans(n), k)}

\* Documents that vary the sentence length, the tags, the dependency edges,
\* the number of frames, their names and their lexical units.
RowSurface == <<"is", "there">>

RowLemma == <<"be", "there">>

RowIds == <<"1", "2">>

RowHead == <<"0", "1">>

RowRel == <<"root", "advmod">>

RowPos == {"VB", "IN"}

RowSentences ==
    UNION {[1..n -> RowPos \X BOOLEAN] : n \in 0..Len(RowIds)}

RowTokens(snt) ==
    [i \in DOMAIN snt |->
        Token(RowIds[i], RowSurface[i], RowLemma[i], snt[i][1])]

\* the edges of the tokens marked as having one, in sentence order
RECURSIVE RowDeps(_, _)
RowDeps(snt, i) ==
    IF i > Len(snt) THEN <<>>
    ELSE (IF snt[i][2] THEN <<Dep(RowIds[i], RowHead[i], RowRel[i])>>
          ELSE <<>>) \o RowDeps(snt, i + 1)

RowFrames ==
    {Frame(name, lus, <<FrameElement("Theme", <<"2">>)>>) :
        name \in {"Entering", "Giving", "_"},
        lus \in {<<>>, <<"1">>, <<"1", "2">>}}

\* sentences of up to Len(RowIds) tokens with up to k frames
RowDocs(k) ==
    {Document("4711", RowTokens(snt), RowDeps(snt, 1), frms) :
        snt \in RowSentences, frms \in SeqsUpTo(RowFrames, k)}

\* One-token, one-frame documents for the directories of several files.
BatchDocs ==
    {d \in RowDocs(1) :
        /\ Len(d.tokens) = 1
        /\ d.tokens[1].pos = "VB" \/ d.deps # <<>>
        /\ d.frames = <<Frame("Giving", <<"1">>,
                              <<FrameElement("Theme", <<"2">>)>>)>>}

path_source(dataset_name) == PATH_DATASETS \o "/" \o dataset_name

\* a directory holding the documents of docs under the first file names
Directory(docs) ==
    [name \in {FileNames[i] : i \in DOMAIN docs} |-> docs[Rank(name)]]

FileSystem(docs1, docs2) ==
    (path_source(MainCalls[1].dataset) :> Directory(docs1)) @@
    (path_source(MainCalls[2].dataset) :> Directory(docs2))

(***************************************************************************)
(* The program: main and the loops of huric_xml_to_conll.  It is started   *)
(* on one document drawn from the whole document space, or on up to       *)
(* MaxFiles small documents in each data set.                              *)
(***************************************************************************)
Init ==
    /\ \/ \E d \in LabelDocs(MaxSpans, MaxSpanLen) :
             fs = FileSystem(<<d>>, <<>>)
       \/ \E d \in RowDocs(MaxFrames) : fs = FileSystem(<<d>>, <<>>)
       \/ \E docs1 \in SeqsUpTo(BatchDocs, MaxFiles),
             docs2 \in SeqsUpTo(BatchDocs, MaxFiles) :
             fs = FileSystem(docs1, docs2)
    /\ pc = "main"
    /\ ds = 1
    /\ files_list = <<>>
    /\ fidx = 1
    /\ command_id = ""
    /\ tokens = <<>>
    /\ deps_by_t_id = <<>>
    /\ frames = <<>>
    /\ fi = 1
    /\ results = <<>>
    /\ samples = <<>>
    /\ out = <<>>
    /\ exc = <<>>
    /\ calls = {}

dataset_name == MainCalls[ds].dataset

\* the document of the file the outer loop is at
CurrentDoc == fs[path_source(dataset_name)][sorted(files_list)[fidx]]

\* huric_xml_to_conll is entered: the directory is listed
ListDir ==
    /\ pc = "main"
    /\ \E listing \in listdir(fs[path_source(dataset_name)]) :
            files_list' = listing
    /\ results' = <<>>
    /\ fidx' = 1
    /\ pc' = "for_file"
    /\ UNCHANGED <<fs, ds, command_id, tokens, deps_by_t_id, frames, fi,
                   samples, out, exc, calls>>

\* the next file in sorted order is opened and parsed
OpenFile ==
    /\ pc = "for_file"
    /\ fidx <= Len(sorted(files_list))
    /\ command_id' = CurrentDoc.id
    /\ tokens' = CurrentDoc.tokens
    /\ deps_by_t_id' = deps_dict(CurrentDoc.deps)
    /\ frames' = CurrentDoc.frames
    /\ fi' = 1
    /\ pc' = "for_frame"
    /\ UNCHANGED <<fs, ds, files_list, fidx, results, samples, out, exc,
                   calls>>

\* variant: a frame whose conversion raises is passed over
ProcessFrame_Continue ==
    /\ pc = "for_frame"
    /\ fi <= Len(frames)
    /\ LET r == conll_annotation(tokens, command_id, deps_by_t_id, frames[fi])
       IN IF r.ok
          THEN results' = Append(results, r.val)
          ELSE results' = results
    /\ fi' = fi + 1
    /\ UNCHANGED <<fs, pc, ds, files_list, fidx, command_id, tokens,
                   deps_by_t_id, frames, samples, out, exc, calls>>

\* one iteration of the loop over the frames: a row-set, or the exception
\* that ends the program (main catches nothing)
ProcessFrame ==
    /\ pc = "for_frame"
    /\ fi <= Len(frames)
    /\ LET r == conll_annotation(tokens, command_id, deps_by_t_id, frames[fi])
       IN IF r.ok
          THEN /\ results' = Append(results, r.val)
               /\ fi' = fi + 1
               /\ UNCHANGED <<pc, exc>>
          ELSE /\ pc' = "raised"
               /\ exc' = r.exc
               /\ UNCHANGED <<results, fi>>
    /\ UNCHANGED <<fs, ds, files_list, fidx, command_id, tokens,
                   deps_by_t_id, frames, samples, out, calls>>

\* the frames of the file are exhausted
NextFile ==
    /\ pc = "for_frame"
    /\ fi > Len(frames)
    /\ fidx' = fidx + 1
    /\ pc' = "for_file"
    /\ UNCHANGED <<fs, ds, files_list, command_id, tokens, deps_by_t_id,
                   frames, fi, results, samples, out, exc, calls>>

\* the files are exhausted: return results
Return ==
    /\ pc = "for_file"
    /\ fidx > Len(sorted(files_list))
    /\ samples' = results
    /\ pc' = "write"
    /\ UNCHANGED <<fs, ds, files_list, fidx, command_id, tokens,
                   deps_by_t_id, frames, fi, results, out, exc, calls>>

\* write_conll_samples(samples, dataset, mode), then the next data set
WriteSamples ==
    /\ pc = "write"
    /\ out' = write_conll_samples(out, samples, dataset_name,
                                  MainCalls[ds].mode)
    /\ IF ds < Len(MainCalls)
       THEN ds' = ds + 1 /\ pc' = "main"
       ELSE ds' = ds /\ pc' = "done"
    /\ UNCHANGED <<fs, files_list, fidx, command_id, tokens, deps_by_t_id,
                   frames, fi, results, samples, exc, calls>>

Next ==
    \/ ListDir
    \/ OpenFile
    \/ ProcessFrame
    \/ NextFile
    \/ Return
    \/ WriteSamples

Spec == Init /\ [][Next]_vars

(***************************************************************************)
(* The lookup functions on their own: each call is recorded with its       *)
(* argument and its outcome.                                               *)
(***************************************************************************)
PosTags ==
    {"JJ", "NN", "NNP", "NNS", "VB", "VBD", "VBG", "VBN", "VBP", "VBZ",
     "RP", "EX", "IN", "DT", "FOO"}

FrameNames == DOMAIN FrameMapping \cup Range(FrameMapping) \cup {"Giving"}

Lemmas == DOMAIN LemmaMapping \cup Range(LemmaMapping) \cup {"take"}

FeNames == DOMAIN FeMapping \cup Range(FeMapping) \cup {"Theme"}

Call(fn, arg, ret) == [fn |-> fn, arg |-> arg, ret |-> ret]

InitLookup ==
    /\ fs = FileSystem(<<>>, <<>>)
    /\ pc = "lookup"
    /\ ds = 1
    /\ files_list = <<>>
    /\ fidx = 1
    /\ command_id = ""
    /\ tokens = <<>>
    /\ deps_by_t_id = <<>>
    /\ frames = <<>>
    /\ fi = 1
    /\ results = <<>>
    /\ samples = <<>>
    /\ out = <<>>
    /\ exc = <<>>
    /\ calls = {}

LookupUnchanged ==
    UNCHANGED <<fs, pc, ds, files_list, fidx, command_id, tokens,
                deps_by_t_id, frames, fi, results, samples, out, exc>>

CallPos ==
    /\ pc = "lookup"
    /\ \E pos \in PosTags :
          calls' = calls \cup
              {Call("get_fn_pos_by_rules", pos, get_fn_pos_by_rules(pos))}
    /\ LookupUnchanged

CallFrameName ==
    /\ pc = "lookup"
    /\ Cardinality(calls) < MaxCalls
    /\ \E name \in FrameNames :
          calls' = calls \cup
              {Call("get_fn_frame_name", name,
                    Returned(get_fn_frame_name(name)))}
    /\ LookupUnchanged

CallLuLemma ==
    /\ pc = "lookup"
    /\ Cardinality(calls) < MaxCalls
    /\ \E lemma \in Lemmas :
          calls' = calls \cup
              {Call("get_lu_lemma", lemma, Returned(get_lu_lemma(lemma)))}
    /\ LookupUnchanged

CallFe ==
    /\ pc = "lookup"
    /\ Cardinality(calls) < MaxCalls
    /\ \E fe \in FeNames :
          calls' = calls \cup
              {Call("get_fe_framenet", fe, Returned(get_fe_framenet(fe)))}
    /\ LookupUnchanged

NextPos == CallPos

NextRemap ==
    \/ CallFrameName
    \/ CallLuLemma
    \/ CallFe

SpecPos == InitLookup /\ [][NextPos]_vars

SpecRemap == InitLookup /\ [][NextRemap]_vars

(***************************************************************************)
(* Properties of huric_xml_to_conll.  While the loop over the frames of a  *)
(* file runs (and after it raised), the row-sets of the frames it has      *)
(* converted, frames 1 .. fi-1 of the file, are the last fi-1 of results.  *)
(***************************************************************************)
Emitted == IF pc \in {"for_frame", "raised"} THEN 1..(fi - 1) ELSE {}

FrameRows(j) == results[Len(results) - (fi - 1) + j]

COL_ID == 1
COL_FORM == 2
COL_LEMMA == 3
COL_POS == 5
COL_HEAD == 9
COL_PHEAD == 10
COL_FILLPRED == 13
COL_PRED == 14
COL_APRED == 15

\* the label the claim gives position p of a span of n tokens
SpanLabel(p, n, type) ==
    (IF n = 1 THEN "S" ELSE IF p = 1 THEN "B" ELSE "I") \o "-" \o
        get_fe_framenet(type)

RowsCarry(j, span) ==
    \A p \in DOMAIN span.tokens :
        \A i \in DOMAIN FrameRows(j) :
            FrameRows(j)[i][COL_ID] = span.tokens[p] =>
                FrameRows(j)[i][COL_APRED] =
                    SpanLabel(p, Len(span.tokens), span.type)

\* the span names no token twice, and no later span of the frame names one
\* of its tokens
NotRelabelled(fes, k) ==
    /\ \A p, q \in DOMAIN fes[k].tokens :
            p # q => fes[k].tokens[p] # fes[k].tokens[q]
    /\ \A m \in DOMAIN fes :
            m > k => Range(fes[m].tokens) \cap Range(fes[k].tokens) = {}

\* C1 as stated: for every frame and every frame-element span of it, the row
\* of a one-token span's token carries S-<role>, and the rows of a longer
\* span's tokens carry B-<role> for the first and I-<role> for the others,
\* all with the same remapped role.
C1_AsStated ==
    \A j \in Emitted :
        \A k \in DOMAIN frames[j].fes : RowsCarry(j, frames[j].fes[k])

\* C1 amended: the same, for every span that names no token twice and none
\* of whose tokens is named again by a later span of the frame (a later
\* assignment to fe_by_t_id replaces the earlier label).
C1_SpanLabels ==
    \A j \in Emitted :
        \A k \in DOMAIN frames[j].fes :
            NotRelabelled(frames[j].fes, k) =>
                RowsCarry(j, frames[j].fes[k])

\* a converted frame with a two-token span and a one-token span, disjoint
C1_Witness ==
    \E j \in Emitted :
        /\ Len(frames[j].fes) = 2
        /\ frames[j].fes[1] = FrameElement("Reencoding", <<"2", "3">>)
        /\ frames[j].fes[2] = FrameElement("Theme", <<"1">>)
        /\ FrameRows(j)[1][COL_APRED] = "S-Theme"
        /\ FrameRows(j)[2][COL_APRED] = "B-Re-encoding"
        /\ FrameRows(j)[3][COL_APRED] = "I-Re-encoding"

Covered(frame, id) ==
    \E k \in DOMAIN frame.fes : id \in Range(frame.fes[k].tokens)

\* C2: in every row-set, a token named by none of the frame's spans has
\* APRED exactly O, and a token named by at least one span never has O.
C2_OutsideIsO ==
    \A j \in Emitted :
        \A i \in DOMAIN FrameRows(j) :
            Covered(frames[j], FrameRows(j)[i][COL_ID]) <=>
                FrameRows(j)[i][COL_APRED] # "O"

\* a converted frame with a covered and an uncovered token
C2_Witness ==
    \E j \in Emitted :
        /\ \E i \in DOMAIN FrameRows(j) : FrameRows(j)[i][COL_APRED] = "O"
        /\ \E i \in DOMAIN FrameRows(j) :
              /\ FrameRows(j)[i][COL_APRED] # "O"
              /\ Covered(frames[j], FrameRows(j)[i][COL_ID])

InLu(j, row) == row[COL_ID] \in Range(frames[j].lus)

PredColumns(j, row) ==
    /\ ~InLu(j, row) => row[COL_FILLPRED] = "_" /\ row[COL_PRED] = "_"
    /\ InLu(j, row) =>
          /\ row[COL_FILLPRED] =
                get_lu_lemma(row[COL_LEMMA]) \o "." \o
                    get_fn_pos_by_rules(row[COL_POS]).val
          /\ row[COL_PRED] = get_fn_frame_name(frames[j].name)

\* C3 as stated: outside the lexical unit FILLPRED and PRED are both _,
\* inside it they are lemma.category and the remapped frame name, and
\* FILLPRED is _ exactly when PRED is _.
C3_AsStated ==
    \A j \in Emitted :
        \A i \in DOMAIN FrameRows(j) :
            /\ PredColumns(j, FrameRows(j)[i])
            /\ FrameRows(j)[i][COL_FILLPRED] = "_" <=>
                    FrameRows(j)[i][COL_PRED] = "_"

\* C3 amended: the two columns are as stated; FILLPRED is _ exactly for the
\* tokens outside the lexical unit, where PRED is _ too, and PRED is _ for
\* a token of the lexical unit exactly when the remapped frame name is _.
C3_PredColumns ==
    \A j \in Emitted :
        \A i \in DOMAIN FrameRows(j) :
            /\ PredColumns(j, FrameRows(j)[i])
            /\ FrameRows(j)[i][COL_FILLPRED] = "_" <=>
                    ~InLu(j, FrameRows(j)[i])
            /\ FrameRows(j)[i][COL_FILLPRED] = "_" =>
                    FrameRows(j)[i][COL_PRED] = "_"
            /\ InLu(j, FrameRows(j)[i]) =>
                    (FrameRows(j)[i][COL_PRED] = "_" <=>
                        get_fn_frame_name(frames[j].name) = "_")

\* a converted frame with a remapped lexical-unit token and a token outside
C3_Witness ==
    \E j \in Emitted :
        /\ Len(FrameRows(j)) = 2
        /\ FrameRows(j)[1][COL_FILLPRED] = "constitute.v"
        /\ FrameRows(j)[1][COL_PRED] = "Arriving"
        /\ FrameRows(j)[2][COL_FILLPRED] = "_"
        /\ FrameRows(j)[2][COL_PRED] = "_"

\* C4: the row-set of a converted frame has one row per token of the
\* sentence, in sentence order, whatever the lexical unit and spans cover.
C4_RowPerToken ==
    \A j \in Emitted :
        /\ Len(FrameRows(j)) = Len(tokens)
        /\ \A i \in DOMAIN tokens : FrameRows(j)[i][COL_ID] = tokens[i].id

\* a converted frame of a two-token sentence whose lexical unit is empty
C4_Witness ==
    \E j \in Emitted :
        /\ Len(tokens) = 2
        /\ frames[j].lus = <<>>
        /\ Len(FrameRows(j)) = 2

(***************************************************************************)
(* Properties of the part-of-speech rule and of the remappings.            *)
(***************************************************************************)
PosCalls == {c \in calls : c.fn = "get_fn_pos_by_rules"}

VerbLike == {"VB", "VBD", "VBG", "VBN", "VBP", "VBZ", "RP", "EX"}

PosRuleAsCoded(c) ==
    /\ c.arg = "JJ" => c.ret = Returned("a")
    /\ c.arg \in {"NN", "NNP", "NNS"} => c.ret = Returned("n")
    /\ c.arg \in VerbLike => c.ret = Returned("v")
    /\ c.arg \notin {"JJ", "NN", "NNP", "NNS"} \cup VerbLike =>
          /\ ~c.ret.ok
          /\ c.ret.exc[1] = "Exception"
          /\ c.arg \in Range(c.ret.exc)

\* C5 as stated: JJ gives a, the three noun tags give n, the verb-like tags,
\* six of them, give v; the recognized tags are nine, and any other tag
\* raises an error naming it.
C5_AsStated ==
    /\ \A c \in PosCalls : PosRuleAsCoded(c)
    /\ Cardinality({c \in PosCalls : c.ret.ok /\ c.ret.val = "v"}) <= 6
    /\ Cardinality({c \in PosCalls : c.ret.ok}) <= 9

\* C5 amended: JJ gives a, the three noun tags give n, the eight verb-like
\* tags VB, VBD, VBG, VBN, VBP, VBZ, RP and EX give v; any tag outside these
\* twelve raises an error naming it and returns no category.
C5_PosRule ==
    /\ \A c \in PosCalls : PosRuleAsCoded(c)
    /\ \A c \in PosCalls : c.ret.ok <=> c.ret.val \in {"a", "n", "v"}
    /\ {c.arg : c \in {d \in PosCalls : d.ret.ok /\ d.ret.val = "v"}}
            \subseteq VerbLike

\* the rule was applied to JJ, VBZ, NNP and EX, and raised for FOO
C5_Witness ==
    /\ Call("get_fn_pos_by_rules", "JJ", Returned("a")) \in calls
    /\ Call("get_fn_pos_by_rules", "VBZ", Returned("v")) \in calls
    /\ Call("get_fn_pos_by_rules", "NNP", Returned("n")) \in calls
    /\ Call("get_fn_pos_by_rules", "EX", Returned("v")) \in calls
    /\ \E c \in PosCalls : c.arg = "FOO" /\ ~c.ret.ok

Table(fn) ==
    CASE fn = "get_fn_frame_name" -> FrameMapping
      [] fn = "get_lu_lemma" -> LemmaMapping
      [] fn = "get_fe_framenet" -> FeMapping

\* C6: each remapping returns a name absent from its table unchanged, and
\* applying it to its own result changes nothing.
C6_Remapping ==
    \A c \in calls :
        /\ c.arg \notin DOMAIN Table(c.fn) => c.ret.val = c.arg
        /\ c.fn = "get_fn_frame_name" /\ c.arg = "Giving" =>
              c.ret.val = "Giving"
        /\ c.fn = "get_fn_frame_name" /\ c.arg = "Entering" =>
              c.ret.val = "Arriving"
        /\ \A d \in calls :
              d.fn = c.fn /\ d.arg = c.ret.val => d.ret.val = d.arg

\* Entering was remapped to Arriving, and Arriving was remapped again
C6_Witness ==
    /\ Call("get_fn_frame_name", "Entering", Returned("Arriving")) \in calls
    /\ \E c \in calls : c.fn = "get_fn_frame_name" /\ c.arg = "Arriving"

(***************************************************************************)
(* Properties of write_conll_samples.                                      *)
(***************************************************************************)
\* the lines of a text: the pieces between its line feeds, and what follows
\* the last line feed if anything does
LineFeeds(text) == {i \in DOMAIN text : text[i] = "\n"}

LineFeed(text, k) ==
    IF k = 0 THEN 0
    ELSE CHOOSE i \in LineFeeds(text) :
            Cardinality({m \in LineFeeds(text) : m <= i}) = k

Lines(text) ==
    LET n == Cardinality(LineFeeds(text))
        whole == [k \in 1..n |->
                    SubSeq(text, LineFeed(text, k - 1) + 1,
                           LineFeed(text, k) - 1)]
    IN IF LineFeed(text, n) = Len(text) THEN whole
       ELSE Append(whole, SubSeq(text, LineFeed(text, n) + 1, Len(text)))

\* line holds the strings of fields, in order, with sep between neighbours
IsJoined(line, sep, fields) ==
    /\ Len(line) = IF fields = <<>> THEN 0 ELSE 2 * Len(fields) - 1
    /\ \A i \in DOMAIN fields : line[2 * i - 1] = fields[i]
    /\ \A i \in 1..(Len(fields) - 1) : line[2 * i] = sep

RECURSIVE LinesBefore(_, _)
LinesBefore(smp, k) ==
    IF k = 1 THEN 0 ELSE LinesBefore(smp, k - 1) + Len(smp[k - 1]) + 1

\* samples still holds what the k-th call of write_conll_samples was given
WrittenFrom(k) ==
    \/ k = 1 /\ ds = 2 /\ pc \in {"main", "for_file", "for_frame", "raised"}
    \/ k = 2 /\ pc = "done"

WrittenAsStated(k) ==
    LET name == MainCalls[k].dataset
        conll == Lines(out[mode_file(name, MainCalls[k].mode)])
        sents == Lines(out[sents_file(name)])
    IN /\ out[mode_file(name, MainCalls[k].mode)] = out[train_file(name)]
       /\ Len(conll) = LinesBefore(samples, Len(samples) + 1)
       /\ \A n \in DOMAIN samples :
             /\ \A i \in DOMAIN samples[n] :
                   IsJoined(conll[LinesBefore(samples, n) + i], "\t",
                            samples[n][i])
             /\ conll[LinesBefore(samples, n) + Len(samples[n]) + 1] = <<>>
       /\ Len(sents) = Len(samples)
       /\ \A n \in DOMAIN samples :
             IsJoined(sents[n], " ",
                      [i \in DOMAIN samples[n] |-> samples[n][i][COL_FORM]])

\* C7: the mode file and the fulltext.train file hold the same text, every
\* row-set as one line per row followed by one blank line, and the .sents
\* file holds one line per row-set, its surface forms joined by spaces, in
\* the order of the samples.
C7_WrittenFiles ==
    \A k \in DOMAIN MainCalls :
        WrittenFrom(k) =>
            /\ {mode_file(MainCalls[k].dataset, MainCalls[k].mode),
                train_file(MainCalls[k].dataset),
                sents_file(MainCalls[k].dataset)} \subseteq DOMAIN out
            /\ WrittenAsStated(k)

\* two row-sets of two rows each were written as six lines
C7_Witness ==
    /\ WrittenFrom(1)
    /\ Len(samples) = 2
    /\ Len(samples[1]) = 2
    /\ Len(samples[2]) = 2
    /\ Len(Lines(out[train_file(MainCalls[1].dataset)])) = 6
    /\ Len(Lines(out[sents_file(MainCalls[1].dataset)])) = 2

(***************************************************************************)
(* Properties of the failures.                                             *)
(***************************************************************************)
\* the positions of the tokens of doc that no dependency edge points to
MissingEdge(doc) ==
    {i \in DOMAIN doc.tokens :
        \A n \in DOMAIN doc.deps : doc.deps[n].to # doc.tokens[i].id}

\* a token of the sentence is in frame j's lexical unit and has a tag the
\* part-of-speech rule does not recognize
BadLuTokens(doc, j) ==
    {i \in DOMAIN doc.tokens :
        /\ doc.tokens[i].id \in Range(doc.frames[j].lus)
        /\ ~get_fn_pos_by_rules(doc.tokens[i].pos).ok}

BadLu(doc) == \E j \in DOMAIN doc.frames : BadLuTokens(doc, j) # {}

Fails(doc) ==
    \/ doc.frames # <<>> /\ MissingEdge(doc) # {}
    \/ BadLu(doc)

InFile == pc \in {"for_frame", "raised"}

\* the loop over the frames of the current file ended without an exception
FileConverted == pc = "for_frame" /\ fi > Len(frames)

Min(S) == CHOOSE x \in S : \A y \in S : x <= y

\* the place of name among the sorted names of dir
SortedIndex(dir, name) ==
    Cardinality({m \in DOMAIN dir : Rank(m) <= Rank(name)})

\* C8: when a file of a data set fails, no file after the first failing one
\* is opened, huric_xml_to_conll returns nothing for the data set, and none
\* of the data set's three output files is written.
C8_FailFast ==
    \A k \in DOMAIN MainCalls :
        LET dir == fs[path_source(MainCalls[k].dataset)]
            failing == {name \in DOMAIN dir : Fails(dir[name])}
        IN failing # {} =>
            /\ ds <= k
            /\ ds = k => pc \notin {"write", "done"}
            /\ ds = k /\ pc \in {"for_file", "for_frame", "raised"} =>
                  fidx <= Min({SortedIndex(dir, name) : name \in failing})
            /\ {mode_file(MainCalls[k].dataset, MainCalls[k].mode),
                train_file(MainCalls[k].dataset),
                sents_file(MainCalls[k].dataset)} \cap DOMAIN out = {}

\* the second file of the second data set failed after the first file's
\* row-set was collected
C8_Witness ==
    /\ pc = "raised"
    /\ ds = 2
    /\ fidx = 2
    /\ Len(results) = 1
    /\ Len(files_list) = 2

HeadFromEdge ==
    \A j \in Emitted :
        \A i \in DOMAIN FrameRows(j) :
            \E n \in DOMAIN CurrentDoc.deps :
                /\ CurrentDoc.deps[n].to = FrameRows(j)[i][COL_ID]
                /\ CurrentDoc.deps[n].from = FrameRows(j)[i][COL_HEAD]
                /\ CurrentDoc.deps[n].from = FrameRows(j)[i][COL_PHEAD]

Unrecognized(doc) ==
    {i \in DOMAIN doc.tokens : ~get_fn_pos_by_rules(doc.tokens[i].pos).ok}

\* C10 as stated: tokens outside every lexical unit may carry unrecognized
\* tags, and the rule's error is raised if and only if a token of some
\* frame's lexical unit has an unrecognized tag.
C10_AsStated ==
    /\ FileConverted => ~BadLu(CurrentDoc)
    /\ pc = "raised" => (exc[1] = "Exception" <=> BadLu(CurrentDoc))

\* C10 amended: the rule's error is raised only for a token of the current
\* frame's lexical unit with an unrecognized tag, which it names; a file in
\* which some frame's lexical unit has such a token is never converted: it
\* fails with the rule's error, or with the lookup failure of a missing
\* dependency edge when that is raised first; a file without such a token
\* fails only by the lookup failure.
C10_RuleOnlyForLu ==
    /\ FileConverted => ~BadLu(CurrentDoc)
    /\ pc = "raised" /\ exc[1] = "Exception" =>
          \E i \in BadLuTokens(CurrentDoc, fi) :
              exc = RuleException(tokens[i].pos)
    /\ pc = "raised" /\ exc[1] # "Exception" =>
          /\ exc[1] = "KeyError"
          /\ MissingEdge(CurrentDoc) # {}
    /\ pc = "raised" /\ BadLu(CurrentDoc) /\ MissingEdge(CurrentDoc) = {} =>
          exc[1] = "Exception"

\* a file was converted although a token outside the lexical unit of its
\* frame has an unrecognized tag
C10_Witness ==
    /\ FileConverted
    /\ frames # <<>>
    /\ Unrecognized(CurrentDoc) # {}
    /\ \E i \in DOMAIN tokens : tokens[i].id \in Range(frames[1].lus)

====
